---- MODULE Spec2Model ----
(***************************************************************************)
(* Model of the HTTP gateway in src/app.py: the four search handlers, the  *)
(* mirror-link resolver, and the download proxy, each request being one    *)
(* task that makes at most one external call.                              *)
(*                                                                         *)
(* Text is modelled as sequences: a query and a filter value are sequences *)
(* of characters, a URL is a sequence of tokens in which "/", "?" and "#"  *)
(* are tokens of their own and every other token holds none of them, so    *)
(* that splitting the token sequence at "/" is splitting the text at "/".  *)
(***************************************************************************)
EXTENDS Integers, Sequences, FiniteSets, TLC

VARIABLES pc, req, calls, ext, pending, resp, path, loop

vars == <<pc, req, calls, ext, pending, resp, path, loop>>

-----------------------------------------------------------------------------
(* Bounds of the model. *)

NumRequests == 2
MaxQueryLen == 3
MaxFilters == 2

Requests == 1 .. NumRequests

-----------------------------------------------------------------------------
(* Program constants. *)

MinQueryLen == 3
StatusBadRequest == 400
StatusServerError == 500
StatusOK == 200

ShortQueryDetail == <<"Query must be at least 3 characters long.">>
ResolvePrefix == "Error resolving download links: "
DownloadPrefix == "Error downloading file: "
DefaultContentType == <<"application/", "octet-stream">>

SearchKinds == {"search_by_title", "search_by_author"}
FilteredKinds == {"search_title_filtered", "search_author_filtered"}

-----------------------------------------------------------------------------
(* Inputs. *)

QueryChars == {"a", " "}
Queries == UNION {[1 .. n -> QueryChars] : n \in 0 .. MaxQueryLen}

\* Field values, as character sequences.
En == <<"e", "n">>
E == <<"e">>
Fr == <<"f", "r">>
Y1 == <<"1">>

\* A Filter as it arrives in the request body: exact_match is true, false,
\* null, or left out.
RawFlags == {"true", "false", "null", "omitted"}
FilterTargets == {<<"Language", En>>, <<"Language", E>>, <<"Year", Y1>>}
RawFilters ==
  {[field |-> t[1], value |-> t[2], exact_match |-> f] :
     t \in FilterTargets, f \in RawFlags}
FilterLists == UNION {[1 .. n -> RawFilters] : n \in 0 .. MaxFilters}
\* filters: the list, or absent (None).
FilterInputs ==
  {[given |-> TRUE, items |-> fs] : fs \in FilterLists}
    \cup {[given |-> FALSE, items |-> <<>>]}

\* Records of the catalog.
RecEn == [Language |-> En, Year |-> Y1]
RecFr == [Language |-> Fr, Year |-> Y1]
RecNoLang == [Year |-> Y1]
Catalogs == {<<>>, <<RecEn, RecFr, RecNoLang>>, <<RecFr, RecEn>>}

\* URLs, as token sequences.
UrlBook ==
  <<"https:", "/", "/", "download.library.gift", "/", "main", "/", "123", "/",
    "abc123", "/", "book.pdf">>
UrlEvil == <<"https:", "/", "/", "evil.example", "/", "x">>
UrlQuery ==
  <<"https:", "/", "/", "download.library.gift", "/", "main", "/", "123", "/",
    "abc123", "/", "book.pdf", "?", "next=", "/", "home">>
UrlDir == <<"https:", "/", "/", "evil.example", "/", "files", "/">>
Urls == {UrlBook, UrlEvil, UrlQuery, UrlDir}

Items == {RecEn, RecNoLang}

AllInputs ==
  {[kind |-> k, query |-> q] : k \in SearchKinds, q \in Queries}
    \cup {[kind |-> k, query |-> q, filters |-> f] :
            k \in FilteredKinds, q \in Queries, f \in FilterInputs}
    \cup {[kind |-> "resolve", item |-> i] : i \in Items}
    \cup {[kind |-> "download", file_url |-> u] : u \in Urls}

\* The inputs of the concurrent workload.
ConcInputs ==
  {[kind |-> "search_by_title", query |-> <<"a", "a", "a">>],
   [kind |-> "search_by_author", query |-> <<"a">>],
   [kind |-> "search_title_filtered", query |-> <<"a", " ", "a">>,
    filters |-> [given |-> TRUE,
                 items |-> <<[field |-> "Language", value |-> En,
                              exact_match |-> "omitted"]>>]],
   [kind |-> "resolve", item |-> RecEn],
   [kind |-> "download", file_url |-> UrlBook]}

-----------------------------------------------------------------------------
(* Results of the external calls. *)

BackendMessages == {"timed out", ""}
BackendRaises == {[tag |-> "raise", message |-> m] : m \in BackendMessages}

Mappings ==
  {<<>>,
   <<[name |-> "GET", url |-> UrlBook]>>,
   <<[name |-> "GET", url |-> UrlBook], [name |-> "Cloudflare", url |-> UrlQuery]>>}
ResolveResults == {[tag |-> "ok", mapping |-> m] : m \in Mappings} \cup BackendRaises

\* Upstream Content-Type header: absent, or a value.
ContentTypes ==
  {[present |-> FALSE, value |-> <<>>],
   [present |-> TRUE, value |-> <<"application/", "pdf">>],
   [present |-> TRUE, value |-> <<"text/", "html">>],
   [present |-> TRUE, value |-> <<"text/", "html", "; charset=", "koi8-r">>]}
UpstreamStatuses == {200, 206, 301, 404, 503}
Bodies == {"bytes-1", "bytes-2"}
TransportCauses == {"Name or service not known", "All connection attempts failed", ""}
UpstreamResults ==
  {[tag |-> "response", status |-> s, content_type |-> c, body |-> b] :
     s \in UpstreamStatuses, c \in ContentTypes, b \in Bodies}
    \cup {[tag |-> "transport_error", cause |-> c] : c \in TransportCauses}
    \cup {[tag |-> "other_error", cause |-> "InvalidURL"]}

-----------------------------------------------------------------------------
(* Request parsing and the search handlers' pure steps. *)

\* Filter.exact_match: Optional[bool] = True. A flag left out takes the
\* default; an explicit null is kept as None.
ParseFlag(raw) ==
  CASE raw = "true" -> "True"
    [] raw = "false" -> "False"
    [] raw = "null" -> "None"
    [] raw = "omitted" -> "True"

ParseFilter(raw) ==
  [field |-> raw.field, value |-> raw.value,
   exact_match |-> ParseFlag(raw.exact_match)]

\* request.filters or []
RequestFilters(f) ==
  IF f.given THEN [i \in DOMAIN f.items |-> ParseFilter(f.items[i])] ELSE <<>>

\* Python truthiness of an Optional[bool].
Truthy(flag) == flag = "True"

\* TooShort with the comparison off by one.
TooShortOffByOne(query) == Len(query) <= MinQueryLen

TooShort(query) == Len(query) < MinQueryLen

\* The query as handed to the backend.
ForwardedQuery(query) == query

LastIndex(S) == CHOOSE i \in S : \A j \in S : j <= i

\* {filter.field: filter.value for filter in filters}: a later entry of the
\* same field replaces an earlier one.
FiltersDict(fs) ==
  [f \in {fs[i].field : i \in DOMAIN fs} |->
     fs[LastIndex({i \in DOMAIN fs : fs[i].field = f})].value]

\* ExactMatch with any() in place of all().
ExactMatchAny(fs) == \E i \in DOMAIN fs : Truthy(fs[i].exact_match)

\* all(filter.exact_match for filter in filters)
ExactMatch(fs) == \A i \in DOMAIN fs : Truthy(fs[i].exact_match)

BackendOp(kind) ==
  CASE kind = "search_by_title" -> "search_title"
    [] kind = "search_by_author" -> "search_author"
    [] kind = "search_title_filtered" -> "search_title_filtered"
    [] kind = "search_author_filtered" -> "search_author_filtered"

SearchCall(input) ==
  [op |-> BackendOp(input.kind), query |-> ForwardedQuery(input.query)]

FilteredCall(input) ==
  [op |-> BackendOp(input.kind), query |-> ForwardedQuery(input.query),
   filters |-> FiltersDict(RequestFilters(input.filters)),
   exact_match |-> ExactMatch(RequestFilters(input.filters))]

-----------------------------------------------------------------------------
(* The backend's filter engine. *)

IsSubstring(v, s) ==
  \E i \in 0 .. (Len(s) - Len(v)) : SubSeq(s, i + 1, i + Len(v)) = v

\* One field rule against one Record, under the given mode.
FieldPasses(record, field, value, exact) ==
  /\ field \in DOMAIN record
  /\ IF exact THEN record[field] = value ELSE IsSubstring(value, record[field])

RecordPasses(record, filters, exact) ==
  \A f \in DOMAIN filters : FieldPasses(record, f, filters[f], exact)

ApplyFilters(records, filters, exact) ==
  LET Keep(record) == RecordPasses(record, filters, exact)
  IN SelectSeq(records, Keep)

-----------------------------------------------------------------------------
(* Responses. *)

NoValue == [kind |-> "none"]
ErrorResponse(status, detail) ==
  [kind |-> "error", status |-> status, detail |-> detail]
JsonResponse(value) == [kind |-> "json", status |-> StatusOK, value |-> value]
\* An exception no handler catches: the framework's plain 500.
UnhandledResponse ==
  ErrorResponse(StatusServerError, <<"Internal Server Error">>)

SearchResponse(result) ==
  IF result.tag = "ok" THEN JsonResponse(result.results) ELSE UnhandledResponse

\* ResolveResponse that swallows the exception and answers an empty mapping.
ResolveResponseSwallow(result) ==
  IF result.tag = "ok" THEN JsonResponse(result.mapping) ELSE JsonResponse(<<>>)

ResolveResponse(result) ==
  IF result.tag = "ok"
  THEN JsonResponse(result.mapping)
  ELSE ErrorResponse(StatusServerError, <<ResolvePrefix, result.message>>)

-----------------------------------------------------------------------------
(* The download proxy's pure steps. *)

\* Response.is_success, as raise_for_status reads it.
IsSuccess(status) == status >= 200 /\ status <= 299

\* response.headers.get("Content-Type", "application/octet-stream")
ContentTypeOf(result) ==
  IF result.content_type.present
  THEN result.content_type.value
  ELSE DefaultContentType

\* file_url.split("/")[-1]
FileName(url) ==
  LET slashes == {i \in DOMAIN url : url[i] = "/"}
      from == IF slashes = {} THEN 1 ELSE LastIndex(slashes) + 1
  IN SubSeq(url, from, Len(url))

ContentDisposition(filename) ==
  <<"attachment; filename=\"">> \o filename \o <<"\"">>

\* The Content-Type header Response(media_type=...) sends: a text/ type
\* that names no charset gets the response's default charset.
MediaTypeHeader(media_type) ==
  IF /\ media_type[1] = "text/"
     /\ \A i \in DOMAIN media_type : media_type[i] # "; charset="
  THEN media_type \o <<"; charset=", "utf-8">>
  ELSE media_type

FileResponse(url, result) ==
  [kind |-> "file", status |-> StatusOK, content |-> result.body,
   content_type |-> MediaTypeHeader(ContentTypeOf(result)),
   disposition |-> ContentDisposition(FileName(url))]

\* What the body of the async with block ends in: the Response it returns
\* or the exception it raises.
FetchOutcome(url, result) ==
  CASE result.tag = "transport_error" ->
         [kind |-> "RequestError", text |-> result.cause]
    [] result.tag = "other_error" ->
         [kind |-> "Exception", text |-> result.cause]
    [] result.tag = "response" /\ ~IsSuccess(result.status) ->
         [kind |-> "HTTPStatusError", status |-> result.status,
          text |-> result.body]
    [] OTHER -> [kind |-> "Response", response |-> FileResponse(url, result)]

\* DownloadResponse whose first except clause catches every httpx error.
DownloadResponseGeneric(outcome) ==
  CASE outcome.kind = "Response" -> outcome.response
    [] outcome.kind \in {"RequestError", "HTTPStatusError"} ->
         ErrorResponse(StatusServerError, <<DownloadPrefix, outcome.text>>)
    [] OTHER -> UnhandledResponse

\* DownloadResponse that reports a transport failure without its cause.
DownloadResponseNoCause(outcome) ==
  CASE outcome.kind = "Response" -> outcome.response
    [] outcome.kind = "RequestError" ->
         ErrorResponse(StatusServerError, <<DownloadPrefix>>)
    [] outcome.kind = "HTTPStatusError" ->
         ErrorResponse(outcome.status, <<DownloadPrefix, outcome.text>>)
    [] OTHER -> UnhandledResponse

\* The except clauses, and the framework for what they let through.
DownloadResponse(outcome) ==
  CASE outcome.kind = "Response" -> outcome.response
    [] outcome.kind = "RequestError" ->
         ErrorResponse(StatusServerError, <<DownloadPrefix, outcome.text>>)
    [] outcome.kind = "HTTPStatusError" ->
         ErrorResponse(outcome.status, <<DownloadPrefix, outcome.text>>)
    [] OTHER -> UnhandledResponse

\* A blocking fetch: the download keeps the event loop while it waits.
LoopHeldWhileAwaiting(r) == r

\* Who holds the event loop while a download awaits the upstream: nobody,
\* the coroutine is suspended (0 is the free loop).
LoopWhileAwaiting(r) == 0

-----------------------------------------------------------------------------
(* State. pc[r] is the position of request r's task: "idle" before the    *)
(* request arrives, "received" before its handler runs, "calling" while   *)
(* the backend call of a search or resolve is out, "fetching" while a     *)
(* download awaits the upstream GET, "exiting" while the download leaves  *)
(* its async with block, "done" once the response is out.                 *)

Init ==
  /\ pc = [r \in Requests |-> "idle"]
  /\ req = [r \in Requests |-> NoValue]
  /\ calls = [r \in Requests |-> <<>>]
  /\ ext = [r \in Requests |-> NoValue]
  /\ pending = [r \in Requests |-> NoValue]
  /\ resp = [r \in Requests |-> NoValue]
  /\ path = [r \in Requests |-> <<>>]
  /\ loop = 0

\* A client sends a request.
Arrive(r, input) ==
  /\ pc[r] = "idle"
  /\ pc' = [pc EXCEPT ![r] = "received"]
  /\ req' = [req EXCEPT ![r] = input]
  /\ path' = [path EXCEPT ![r] = IF input.kind = "download" THEN <<"Idle">> ELSE <<>>]
  /\ UNCHANGED <<calls, ext, pending, resp, loop>>

\* search_by_title, search_by_author up to the backend call.
SearchStart(r) ==
  /\ pc[r] = "received"
  /\ req[r].kind \in SearchKinds
  /\ loop = 0
  /\ IF TooShort(req[r].query)
     THEN /\ resp' = [resp EXCEPT ![r] = ErrorResponse(StatusBadRequest, ShortQueryDetail)]
          /\ pc' = [pc EXCEPT ![r] = "done"]
          /\ UNCHANGED calls
     ELSE /\ calls' = [calls EXCEPT ![r] = Append(@, SearchCall(req[r]))]
          /\ pc' = [pc EXCEPT ![r] = "calling"]
          /\ UNCHANGED resp
  /\ UNCHANGED <<req, ext, pending, path, loop>>

\* The backend search returns a sequence of Records, or raises.
SearchReturn(r, result) ==
  /\ pc[r] = "calling"
  /\ req[r].kind \in SearchKinds
  /\ loop = 0
  /\ ext' = [ext EXCEPT ![r] = result]
  /\ resp' = [resp EXCEPT ![r] = SearchResponse(result)]
  /\ pc' = [pc EXCEPT ![r] = "done"]
  /\ UNCHANGED <<req, calls, pending, path, loop>>

\* search_title_filtered, search_author_filtered up to the backend call.
FilteredStart(r) ==
  /\ pc[r] = "received"
  /\ req[r].kind \in FilteredKinds
  /\ loop = 0
  /\ IF TooShort(req[r].query)
     THEN /\ resp' = [resp EXCEPT ![r] = ErrorResponse(StatusBadRequest, ShortQueryDetail)]
          /\ pc' = [pc EXCEPT ![r] = "done"]
          /\ UNCHANGED calls
     ELSE /\ calls' = [calls EXCEPT ![r] = Append(@, FilteredCall(req[r]))]
          /\ pc' = [pc EXCEPT ![r] = "calling"]
          /\ UNCHANGED resp
  /\ UNCHANGED <<req, ext, pending, path, loop>>

\* The backend searches, filters what it found by the filters and the mode
\* of the call, and returns; or raises.
FilteredReturn(r, found) ==
  /\ pc[r] = "calling"
  /\ req[r].kind \in FilteredKinds
  /\ loop = 0
  /\ LET call == calls[r][Len(calls[r])]
         result == IF found.tag = "ok"
                   THEN [tag |-> "ok",
                         results |-> ApplyFilters(found.results, call.filters,
                                                  call.exact_match)]
                   ELSE found
     IN /\ ext' = [ext EXCEPT ![r] = result]
        /\ resp' = [resp EXCEPT ![r] = SearchResponse(result)]
  /\ pc' = [pc EXCEPT ![r] = "done"]
  /\ UNCHANGED <<req, calls, pending, path, loop>>

\* resolve_download_links up to the backend call.
ResolveStart(r) ==
  /\ pc[r] = "received"
  /\ req[r].kind = "resolve"
  /\ loop = 0
  /\ calls' = [calls EXCEPT ![r] =
                 Append(@, [op |-> "resolve_download_links", item |-> req[r].item])]
  /\ pc' = [pc EXCEPT ![r] = "calling"]
  /\ UNCHANGED <<req, ext, pending, resp, path, loop>>

\* The backend returns a mapping, or raises.
ResolveReturn(r, result) ==
  /\ pc[r] = "calling"
  /\ req[r].kind = "resolve"
  /\ loop = 0
  /\ ext' = [ext EXCEPT ![r] = result]
  /\ resp' = [resp EXCEPT ![r] = ResolveResponse(result)]
  /\ pc' = [pc EXCEPT ![r] = "done"]
  /\ UNCHANGED <<req, calls, pending, path, loop>>

\* download_file up to the await of client.get(file_url).
DownloadFetch(r) ==
  /\ pc[r] = "received"
  /\ req[r].kind = "download"
  /\ loop = 0
  /\ calls' = [calls EXCEPT ![r] = Append(@, [op |-> "GET", url |-> req[r].file_url])]
  /\ pc' = [pc EXCEPT ![r] = "fetching"]
  /\ path' = [path EXCEPT ![r] = Append(@, "Fetching")]
  /\ loop' = LoopWhileAwaiting(r)
  /\ UNCHANGED <<req, ext, pending, resp>>

\* The upstream GET ends, in a response or an exception, and the body of
\* the async with block runs to its return or raise.
DownloadReturn(r, result) ==
  /\ pc[r] = "fetching"
  /\ loop \in {0, r}
  /\ ext' = [ext EXCEPT ![r] = result]
  /\ pending' = [pending EXCEPT ![r] = FetchOutcome(req[r].file_url, result)]
  /\ path' = [path EXCEPT ![r] =
                Append(@, IF pending'[r].kind = "Response"
                          THEN "Streaming" ELSE "Failed")]
  /\ pc' = [pc EXCEPT ![r] = "exiting"]
  /\ loop' = 0
  /\ UNCHANGED <<req, calls, resp>>

\* The client is closed, the except clauses run, the response goes out.
DownloadClose(r) ==
  /\ pc[r] = "exiting"
  /\ loop = 0
  /\ resp' = [resp EXCEPT ![r] = DownloadResponse(pending[r])]
  /\ pc' = [pc EXCEPT ![r] = "done"]
  /\ path' = [path EXCEPT ![r] = Append(@, "Closed")]
  /\ UNCHANGED <<req, calls, ext, pending, loop>>

\* What the clients and the external services may do: the requests sent,
\* what a backend search finds or raises, what the resolver returns or
\* raises, how the upstream GET ends.
SearchResults == {[tag |-> "ok", results |-> c] : c \in Catalogs} \cup BackendRaises

World ==
  [inputs |-> AllInputs, searches |-> SearchResults,
   resolves |-> ResolveResults, upstream |-> UpstreamResults]

ConcWorld ==
  [inputs |-> ConcInputs,
   searches |-> {[tag |-> "ok", results |-> <<RecFr, RecEn>>],
                 [tag |-> "raise", message |-> "timed out"]},
   resolves |-> {[tag |-> "ok", mapping |-> <<[name |-> "GET", url |-> UrlBook]>>],
                 [tag |-> "raise", message |-> "timed out"]},
   upstream |-> {[tag |-> "response", status |-> 200, body |-> "bytes-1",
                  content_type |-> [present |-> TRUE,
                                    value |-> <<"application/", "pdf">>]],
                 [tag |-> "response", status |-> 404, body |-> "bytes-2",
                  content_type |-> [present |-> FALSE, value |-> <<>>]],
                 [tag |-> "transport_error", cause |-> "All connection attempts failed"]}]

\* The steps of request r in world w.
Step(r, w) ==
  \/ pc[r] = "idle" /\ \E input \in w.inputs : Arrive(r, input)
  \/ SearchStart(r)
  \/ pc[r] = "calling" /\ \E result \in w.searches : SearchReturn(r, result)
  \/ FilteredStart(r)
  \/ pc[r] = "calling" /\ \E found \in w.searches : FilteredReturn(r, found)
  \/ ResolveStart(r)
  \/ pc[r] = "calling" /\ \E result \in w.resolves : ResolveReturn(r, result)
  \/ DownloadFetch(r)
  \/ pc[r] = "fetching" /\ \E result \in w.upstream : DownloadReturn(r, result)
  \/ DownloadClose(r)

\* One request at a time, over every input and every external result.
First == {r \in Requests : \A s \in Requests : r <= s}

Next == \E r \in First : Step(r, World)

Spec == Init /\ [][Next]_vars

\* Concurrent requests, over the concurrent workload.
NextConc == \E r \in Requests : Step(r, ConcWorld)

SpecConc == Init /\ [][NextConc]_vars

-----------------------------------------------------------------------------
(* Properties. *)

IsSearch(r) == req[r].kind \in SearchKinds \cup FilteredKinds
IsFiltered(r) == req[r].kind \in FilteredKinds
IsResolve(r) == req[r].kind = "resolve"
IsDownload(r) == req[r].kind = "download"
Contains(detail, text) == \E i \in DOMAIN detail : detail[i] = text

\* C1: in each of the four search operations a query of fewer than 3
\* characters ends in a 400 with the detail "Query must be at least 3
\* characters long." and no backend call; a query of 3 or more characters
\* makes exactly one backend call, of the matching operation, with the query
\* unchanged.
Thm_C1 ==
  \A r \in Requests :
    IsSearch(r) =>
      IF Len(req[r].query) < 3
      THEN /\ calls[r] = <<>>
           /\ pc[r] \in {"received", "done"}
           /\ pc[r] = "done" =>
                resp[r] = [kind |-> "error", status |-> 400,
                           detail |-> <<"Query must be at least 3 characters long.">>]
      ELSE /\ pc[r] = "received" => calls[r] = <<>>
           /\ pc[r] # "received" =>
                /\ pc[r] \in {"calling", "done"}
                /\ Len(calls[r]) = 1
                /\ calls[r][1].query = req[r].query
                /\ calls[r][1].op = BackendOp(req[r].kind)
                /\ pc[r] = "done" => resp[r] # [kind |-> "error", status |-> 400,
                           detail |-> <<"Query must be at least 3 characters long.">>]

Wit_C1 ==
  \E r \in Requests :
    /\ IsFiltered(r)
    /\ Len(req[r].query) = 2
    /\ pc[r] = "done"
    /\ resp[r].status = 400
    /\ calls[r] = <<>>

\* The upstream download-host pattern:
\* https://<download-host>/main/<numeric-id>/<hex-token>/<path>.
DownloadHosts == {"download.library.gift"}
NumericIds == {"123"}
HexTokens == {"abc123"}
MatchesAllowList(url) ==
  /\ Len(url) >= 12
  /\ SubSeq(url, 1, 3) = <<"https:", "/", "/">>
  /\ url[4] \in DownloadHosts
  /\ SubSeq(url, 5, 7) = <<"/", "main", "/">>
  /\ url[8] \in NumericIds
  /\ url[9] = "/"
  /\ url[10] \in HexTokens
  /\ url[11] = "/"

\* C2: a download whose file_url does not match the allow-list pattern is
\* rejected with a 400 "Invalid download link format." and issues no
\* upstream GET.
CE_C2 ==
  \A r \in Requests :
    (IsDownload(r) /\ ~MatchesAllowList(req[r].file_url)) =>
      /\ calls[r] = <<>>
      /\ pc[r] = "done" =>
           resp[r] = [kind |-> "error", status |-> 400,
                      detail |-> <<"Invalid download link format.">>]

\* C3: when the upstream GET of a download ends in a response whose status s
\* is not 2xx, the client gets an error response of status s: not a generic
\* 500, not a success carrying the upstream body.
Thm_C3 ==
  \A r \in Requests :
    (/\ IsDownload(r)
     /\ pc[r] = "done"
     /\ ext[r].tag = "response"
     /\ ~(ext[r].status \in 200 .. 299)) =>
      /\ resp[r].kind = "error"
      /\ resp[r].status = ext[r].status

Wit_C3 ==
  \E r \in Requests :
    /\ IsDownload(r)
    /\ pc[r] = "done"
    /\ ext[r].tag = "response"
    /\ ext[r].status = 404
    /\ resp[r].kind = "error"
    /\ resp[r].status = 404

\* C4: when the upstream GET of a download fails at transport level, the
\* client gets a 500 error whose detail contains the text of the cause, and
\* no file body.
Thm_C4 ==
  \A r \in Requests :
    (IsDownload(r) /\ pc[r] = "done" /\ ext[r].tag = "transport_error") =>
      /\ resp[r].kind = "error"
      /\ resp[r].status = 500
      /\ Contains(resp[r].detail, ext[r].cause)

Wit_C4 ==
  \E r \in Requests :
    /\ IsDownload(r)
    /\ pc[r] = "done"
    /\ ext[r].tag = "transport_error"
    /\ ext[r].cause = "All connection attempts failed"
    /\ resp[r].status = 500

\* The Filters of request r, as parsed.
FiltersOf(r) == RequestFilters(req[r].filters)

\* C5: every Record a filtered search returns satisfies every Filter of the
\* request's list, under the mode the call ran in.
CE_C5 ==
  \A r \in Requests :
    (IsFiltered(r) /\ pc[r] = "done" /\ resp[r].kind = "json") =>
      \A k \in DOMAIN resp[r].value : \A i \in DOMAIN FiltersOf(r) :
        FieldPasses(resp[r].value[k], FiltersOf(r)[i].field,
                    FiltersOf(r)[i].value, calls[r][1].exact_match)

\* C6: resolve_download_links calls the backend exactly once; when the
\* backend raises, the response is a 500 error whose detail carries the
\* backend's message, and no mapping; when it returns, the response is the
\* mapping it returned.
Thm_C6 ==
  \A r \in Requests :
    IsResolve(r) =>
      /\ pc[r] = "received" => calls[r] = <<>>
      /\ pc[r] # "received" =>
           /\ Len(calls[r]) = 1
           /\ calls[r][1] = [op |-> "resolve_download_links", item |-> req[r].item]
      /\ (pc[r] = "done" /\ ext[r].tag = "raise") =>
           /\ resp[r].kind = "error"
           /\ resp[r].status = 500
           /\ Contains(resp[r].detail, ext[r].message)
      /\ (pc[r] = "done" /\ ext[r].tag = "ok") =>
           resp[r] = [kind |-> "json", status |-> 200, value |-> ext[r].mapping]

Wit_C6 ==
  \E r \in Requests :
    /\ IsResolve(r)
    /\ pc[r] = "done"
    /\ ext[r].tag = "raise"
    /\ ext[r].message = "timed out"
    /\ resp[r].status = 500

\* The state machine of a single download, as sequences of states.
ClaimedPaths ==
  {<<"Idle", "Validating", "Rejected", "Closed">>,
   <<"Idle", "Validating", "Fetching", "Failed", "Closed">>,
   <<"Idle", "Validating", "Fetching", "Streaming", "Closed">>}
IsPrefix(p, q) == Len(p) <= Len(q) /\ SubSeq(q, 1, Len(p)) = p

\* C7: a download call runs along Idle -> Validating -> (Rejected |
\* Fetching) -> (Failed | Streaming) -> Closed, issues at most one upstream
\* GET, and once it has ended has reported exactly one outcome.
CE_C7 ==
  \A r \in Requests :
    IsDownload(r) =>
      /\ \E q \in ClaimedPaths : IsPrefix(path[r], q)
      /\ Len(calls[r]) <= 1
      /\ (pc[r] = "done") = (resp[r].kind # "none")

\* C8 as stated: the mode passed to the backend is the AND of the Filters'
\* flags, true for an empty or absent list, false as soon as one flag is
\* false or unset (left out, or null).
CE_C8 ==
  \A r \in Requests :
    (IsFiltered(r) /\ pc[r] \in {"calling", "done"} /\ calls[r] # <<>>) =>
      calls[r][1].exact_match =
        (\A i \in DOMAIN req[r].filters.items :
           req[r].filters.items[i].exact_match = "true")

\* C8, amended: the mode passed to the backend is one boolean, true exactly
\* when every Filter's flag is true or left out (a flag left out takes the
\* default true), false as soon as one flag is false or null; the call
\* carries the filters as a field-to-value mapping without any flag of
\* their own.
Thm_C8 ==
  \A r \in Requests :
    (IsFiltered(r) /\ pc[r] \in {"calling", "done"} /\ calls[r] # <<>>) =>
      /\ calls[r][1].exact_match \in BOOLEAN
      /\ calls[r][1].exact_match =
           (\A i \in DOMAIN req[r].filters.items :
              req[r].filters.items[i].exact_match \in {"true", "omitted"})
      /\ DOMAIN calls[r][1] = {"op", "query", "filters", "exact_match"}
      /\ DOMAIN calls[r][1].filters =
           {req[r].filters.items[i].field : i \in DOMAIN req[r].filters.items}
      /\ \A f \in DOMAIN calls[r][1].filters :
           \E i \in DOMAIN req[r].filters.items :
             /\ req[r].filters.items[i].field = f
             /\ req[r].filters.items[i].value = calls[r][1].filters[f]

Wit_C8 ==
  \E r \in Requests :
    /\ IsFiltered(r)
    /\ pc[r] = "done"
    /\ Len(calls[r]) = 1
    /\ Len(req[r].filters.items) = 2
    /\ req[r].filters.items[1].exact_match = "omitted"
    /\ req[r].filters.items[2].exact_match = "true"
    /\ calls[r][1].exact_match = TRUE

\* The final segment of a URL's path: the path ends where the query ("?")
\* or the fragment ("#") starts.
PathOf(url) ==
  LET ends == {i \in DOMAIN url : url[i] \in {"?", "#"}}
  IN IF ends = {} THEN url
     ELSE SubSeq(url, 1, (CHOOSE i \in ends : \A j \in ends : i <= j) - 1)
FinalPathSegment(url) ==
  LET p == PathOf(url)
      slashes == {i \in DOMAIN p : p[i] = "/"}
  IN IF slashes = {} THEN p
     ELSE SubSeq(p, (CHOOSE i \in slashes : \A j \in slashes : j <= i) + 1, Len(p))

\* C9: on a 2xx upstream response the download answers with the upstream
\* body, Content-Disposition attachment; filename="<final path segment of
\* file_url>", and the upstream's Content-Type (application/octet-stream
\* when it sent none).
CE_C9 ==
  \A r \in Requests :
    (/\ IsDownload(r)
     /\ pc[r] = "done"
     /\ ext[r].tag = "response"
     /\ ext[r].status \in 200 .. 299) =>
      /\ resp[r].kind = "file"
      /\ resp[r].content = ext[r].body
      /\ resp[r].disposition =
           <<"attachment; filename=\"">> \o FinalPathSegment(req[r].file_url)
             \o <<"\"">>
      /\ resp[r].content_type =
           IF ext[r].content_type.present
           THEN ext[r].content_type.value
           ELSE <<"application/", "octet-stream">>

\* What request r's handler answers, from r's own input and the result of
\* r's own external call.
OwnResponse(r) ==
  CASE IsSearch(r) ->
         IF Len(req[r].query) < 3
         THEN ErrorResponse(400, ShortQueryDetail)
         ELSE SearchResponse(ext[r])
    [] IsResolve(r) -> ResolveResponse(ext[r])
    [] IsDownload(r) ->
         DownloadResponse(FetchOutcome(req[r].file_url, ext[r]))

\* C10: under any interleaving, a finished request's outcome is determined
\* by its own input and the result of its own single external call, and
\* while a download is suspended on its upstream fetch every other request
\* in progress can take its next step.
Thm_C10 ==
  /\ \A r \in Requests :
       /\ Len(calls[r]) <= 1
       /\ pc[r] = "done" => resp[r] = OwnResponse(r)
  /\ \A d \in Requests : \A r \in Requests \ {d} :
       (pc[d] = "fetching" /\ pc[r] \notin {"idle", "done"}) =>
         ENABLED Step(r, ConcWorld)

Wit_C10 ==
  \E d \in Requests : \E r \in Requests \ {d} :
    /\ pc[d] = "fetching"
    /\ pc[r] = "done"
    /\ IsResolve(r)
    /\ resp[r].kind = "json"

====
